---- MODULE Spec2Model ----
(***************************************************************************)
(* Model of the header-only state machine library libfsm                   *)
(* (src/libfsm/include/StateMachine.hpp), of the unit-test fixture          *)
(* (src/libfsm/unittest/StateMachineTest.cpp) and of the TCP demo           *)
(* (src/demos/tcp/main.cpp).                                                *)
(*                                                                         *)
(* A machine specialization StateMachine<States...> is a record `decl`:    *)
(* the number of state types, the number of event types, the Handle        *)
(* overloads every state type declares and the Name() overrides.  A state  *)
(* type is its position in States..., which is also its position in the    *)
(* tuple `states` and its alternative in the variant `currentState`.       *)
(***************************************************************************)
EXTENDS Integers, Sequences, FiniteSets, TLC

VARIABLES
    decl,          \* the machine specialization all machines are built from
    states,        \* states[m][i]: the tuple element i of machine m
    currentState,  \* currentState[m]: the variant of pointers of machine m
    hooks,         \* hook invocations made by the most recent operation
    lastCall,      \* the most recent call of the public interface
    fresh,         \* fresh[m]: no Dispatch / Transition was called on m yet
    run,           \* the events the TCP demo's main has dispatched so far
    debugBuild,    \* the same program compiled with LIBFSM_DEBUG defined
    lastEntered    \* lastEntered[m]: the object whose OnStateEnter machine m
                   \* called most recently, the initial state's before any

vars == <<decl, states, currentState, hooks, lastCall, fresh, run, debugBuild,
          lastEntered>>

-----------------------------------------------------------------------------
(* Bounds of the model. *)

NumMachines == 2
MaxRun == 3
MaxDoorRun == 6
MaxNesting == 3

-----------------------------------------------------------------------------
(* The unit-test fixture: StateMachine<State1, State2>, Event1, Event2. *)

State1 == 1
State2 == 2
Event1 == 1
Event2 == 2

FixtureStates == {State1, State2}
FixtureEvents == {Event1, Event2}

(* The base class's Name(). *)
UnnamedState == "<Unnamed State>"

(* No Handle overload is declared for the pair: state->Handle(event) is
   ill-formed. *)
NoHandler == 0

(* The event class derives from fsm::Event directly, not from another event
   class. *)
NoBase == 0

(* The state class's OnStateEnter dispatches no event on the machine. *)
NoEvent == 0

(* The fixture as written in the test. *)
FixtureHandle ==
    [s \in FixtureStates |->
        [e \in FixtureEvents |->
            IF s = State1 /\ e = Event1 THEN State2
            ELSE IF s = State2 /\ e = Event2 THEN State1
            ELSE NoHandler]]

FixtureNames == [s \in FixtureStates |-> IF s = State1 THEN "State1" ELSE "State2"]

(* The fixture's two state types and two event types with every choice of
   Handle overloads and of Name() overrides: <<>> is a state type that does
   not override Name(), <<n>> one whose override returns n. *)
FixtureDecls ==
    { [kind |-> "fixture", nStates |-> Cardinality(FixtureStates),
       nEvents |-> Cardinality(FixtureEvents), handle |-> h,
       base |-> [e \in FixtureEvents |-> NoBase],
       reenter |-> [s \in FixtureStates |-> NoEvent],
       nameOverride |-> [s \in FixtureStates |->
                            IF s \in named THEN <<FixtureNames[s]>> ELSE <<>>]] :
        h \in [FixtureStates -> [FixtureEvents -> FixtureStates \cup {NoHandler}]],
        named \in SUBSET FixtureStates }

(* The fixture's state types with a third event class, DerivedEvent, that
   derives publicly from Event1, and every choice of Handle overloads for
   the three event classes. *)
DerivedEvent == Cardinality(FixtureEvents) + 1

DerivedEvents == FixtureEvents \cup {DerivedEvent}

DerivedDecls ==
    { [kind |-> "derived", nStates |-> Cardinality(FixtureStates),
       nEvents |-> Cardinality(DerivedEvents), handle |-> h,
       base |-> [e \in DerivedEvents |->
                    IF e = DerivedEvent THEN Event1 ELSE NoBase],
       reenter |-> [s \in FixtureStates |-> NoEvent],
       nameOverride |-> [s \in FixtureStates |-> <<FixtureNames[s]>>]] :
        h \in [FixtureStates -> [DerivedEvents -> FixtureStates \cup {NoHandler}]] }

(* The fixture's state and event types with every choice of Handle
   overloads and, for every state class, of an OnStateEnter override that
   calls Dispatch on the machine the state belongs to: reenter[s] is the
   event the override of s dispatches, NoEvent when s has no such
   override. *)
ReentrantDecls ==
    { [kind |-> "reentrant", nStates |-> Cardinality(FixtureStates),
       nEvents |-> Cardinality(FixtureEvents), handle |-> h,
       base |-> [e \in FixtureEvents |-> NoBase],
       reenter |-> r,
       nameOverride |-> [s \in FixtureStates |-> <<FixtureNames[s]>>]] :
        h \in [FixtureStates -> [FixtureEvents -> FixtureStates \cup {NoHandler}]],
        r \in [FixtureStates -> FixtureEvents \cup {NoEvent}] }

-----------------------------------------------------------------------------
(* The TCP demo. *)

SynEvent == 1
SynAckEvent == 2
AckEvent == 3
FinEvent == 4
FinAckEvent == 5
RstEvent == 6
TimeoutEvent == 7
ActiveOpenEvent == 8
PassiveOpenEvent == 9
SendDataEvent == 10
CloseEvent == 11

ClosedState == 1
ListenState == 2
SynRcvdState == 3
SynSentState == 4
EstablishedState == 5
FinWait1State == 6
FinWait2State == 7
ClosingState == 8
TimeWaitState == 9
CloseWaitState == 10
LastAckState == 11

TcpStates == ClosedState..LastAckState
TcpEvents == SynEvent..CloseEvent

(* As TcpHandle, TimeWaitState declaring no handler for TimeoutEvent. *)
TcpHandleTimeWaitStuck(s, e) ==
    CASE s = ClosedState /\ e = PassiveOpenEvent -> ListenState
      [] s = ClosedState /\ e = ActiveOpenEvent -> SynSentState
      [] s = ListenState /\ e = SendDataEvent -> SynSentState
      [] s = ListenState /\ e = SynEvent -> SynRcvdState
      [] s = SynRcvdState /\ e = TimeoutEvent -> ClosedState
      [] s = SynRcvdState /\ e = RstEvent -> ListenState
      [] s = SynRcvdState /\ e = AckEvent -> EstablishedState
      [] s = SynRcvdState /\ e = CloseEvent -> FinWait1State
      [] s = SynSentState /\ e = CloseEvent -> ClosedState
      [] s = SynSentState /\ e = SynEvent -> SynRcvdState
      [] s = SynSentState /\ e = SynAckEvent -> EstablishedState
      [] s = EstablishedState /\ e = FinEvent -> CloseWaitState
      [] s = EstablishedState /\ e = CloseEvent -> FinWait1State
      [] s = FinWait1State /\ e = FinEvent -> ClosingState
      [] s = FinWait1State /\ e = AckEvent -> FinWait2State
      [] s = FinWait1State /\ e = FinAckEvent -> TimeWaitState
      [] s = FinWait2State /\ e = FinEvent -> TimeWaitState
      [] s = ClosingState /\ e = AckEvent -> TimeWaitState
      [] s = CloseWaitState /\ e = CloseEvent -> LastAckState
      [] s = LastAckState /\ e = AckEvent -> ClosedState
      [] OTHER -> NoHandler

(* The Handle overloads of the demo's state classes. *)
TcpHandle(s, e) ==
    CASE s = ClosedState /\ e = PassiveOpenEvent -> ListenState
      [] s = ClosedState /\ e = ActiveOpenEvent -> SynSentState
      [] s = ListenState /\ e = SendDataEvent -> SynSentState
      [] s = ListenState /\ e = SynEvent -> SynRcvdState
      [] s = SynRcvdState /\ e = TimeoutEvent -> ClosedState
      [] s = SynRcvdState /\ e = RstEvent -> ListenState
      [] s = SynRcvdState /\ e = AckEvent -> EstablishedState
      [] s = SynRcvdState /\ e = CloseEvent -> FinWait1State
      [] s = SynSentState /\ e = CloseEvent -> ClosedState
      [] s = SynSentState /\ e = SynEvent -> SynRcvdState
      [] s = SynSentState /\ e = SynAckEvent -> EstablishedState
      [] s = EstablishedState /\ e = FinEvent -> CloseWaitState
      [] s = EstablishedState /\ e = CloseEvent -> FinWait1State
      [] s = FinWait1State /\ e = FinEvent -> ClosingState
      [] s = FinWait1State /\ e = AckEvent -> FinWait2State
      [] s = FinWait1State /\ e = FinAckEvent -> TimeWaitState
      [] s = FinWait2State /\ e = FinEvent -> TimeWaitState
      [] s = ClosingState /\ e = AckEvent -> TimeWaitState
      [] s = TimeWaitState /\ e = TimeoutEvent -> ClosedState
      [] s = CloseWaitState /\ e = CloseEvent -> LastAckState
      [] s = LastAckState /\ e = AckEvent -> ClosedState
      [] OTHER -> NoHandler

(* TcpStateMachine: no state class of the demo overrides Name(). *)
TcpStateMachine ==
    [kind |-> "tcp", nStates |-> Cardinality(TcpStates),
     nEvents |-> Cardinality(TcpEvents),
     handle |-> [s \in TcpStates |-> [e \in TcpEvents |-> TcpHandle(s, e)]],
     base |-> [e \in TcpEvents |-> NoBase],
     reenter |-> [s \in TcpStates |-> NoEvent],
     nameOverride |-> [s \in TcpStates |-> <<>>]]

-----------------------------------------------------------------------------
(* The door demo: Door = StateMachine<ClosedState, OpenState>.  The demo's
   ClosedState and CloseEvent are other classes than the TCP demo's. *)

DoorClosedState == 1
DoorOpenState == 2

DoorOpenEvent == 1
DoorCloseEvent == 2

DoorStates == {DoorClosedState, DoorOpenState}
DoorEvents == {DoorOpenEvent, DoorCloseEvent}

(* FSM_TRANSITION(OpenState, OpenEvent) in ClosedState and
   FSM_TRANSITION(ClosedState, CloseEvent) in OpenState. *)
DoorHandle(s, e) ==
    CASE s = DoorClosedState /\ e = DoorOpenEvent -> DoorOpenState
      [] s = DoorOpenState /\ e = DoorCloseEvent -> DoorClosedState
      [] OTHER -> NoHandler

(* FSM_STATE_BEGIN overrides Name() to return the class's name. *)
DoorNames ==
    [s \in DoorStates |->
        IF s = DoorClosedState THEN "ClosedState" ELSE "OpenState"]

Door ==
    [kind |-> "door", nStates |-> Cardinality(DoorStates),
     nEvents |-> Cardinality(DoorEvents),
     handle |-> [s \in DoorStates |-> [e \in DoorEvents |-> DoorHandle(s, e)]],
     base |-> [e \in DoorEvents |-> NoBase],
     reenter |-> [s \in DoorStates |-> NoEvent],
     nameOverride |-> [s \in DoorStates |-> <<DoorNames[s]>>]]

-----------------------------------------------------------------------------
(* The machines of the program: the unit tests construct a machine each,
   the TCP demo's main constructs the one machine stateMachine, the door
   demo's the one machine door. *)

stateMachine == 1

door == 1

Machines == IF decl.kind = "fixture" THEN 1..NumMachines ELSE {stateMachine}

-----------------------------------------------------------------------------
(* State, Event, the tuple and the variant. *)

StateTypes == 1..decl.nStates
EventTypes == 1..decl.nEvents

(* A State* : the machine whose tuple holds the object and its position. *)
AddressOf(m, i) == [owner |-> m, index |-> i]

NullPtr == [owner |-> 0, index |-> 0]

(* std::tuple<States...> states{}: every element value-initialised, once. *)
ConstructStatesFor(d) ==
    [i \in 1..d.nStates |-> [type |-> i, constructed |-> 1]]

ConstructStates == ConstructStatesFor(decl)

(* std::variant<States *...> currentState{&std::get<0>(states)} *)
InitialCurrentState(m) == AddressOf(m, 1)

(* The part of the program state that the library's functions act on. *)
World == [states |-> states, currentState |-> currentState,
          hooks |-> <<>>, ub |-> FALSE,
          active |-> 0, maxActive |-> 0,
          LIBFSM_DEBUG |-> FALSE, cout |-> <<>>,
          steps |-> <<>>]

(* One step of an operation, taken on or towards the object p refers to. *)
Step(what, p) == [step |-> what, on |-> p]

Did(w, what, p) == [w EXCEPT !.steps = Append(@, Step(what, p))]

(* The machines of the program compiled with LIBFSM_DEBUG defined, before
   an operation on them. *)
DebugWorld == [World EXCEPT !.states = debugBuild.states,
                            !.currentState = debugBuild.currentState,
                            !.LIBFSM_DEBUG = TRUE]

(* The pointer refers to a live tuple element of some machine. *)
ValidPtr(w, p) ==
    /\ p.owner \in Machines
    /\ p.index \in DOMAIN w.states[p.owner]

(* Dereferencing a pointer that is not valid is undefined behaviour. *)
Undefined(w) == [w EXCEPT !.ub = TRUE]

(* The target of the Handle overload that state class s declares for event
   class e in the specialization, NoHandler when it declares none. *)
DeclaredHandle(s, e) == decl.handle[s][e]

(* The Name() override of state class s: <<n>>, or <<>> when it has none. *)
NameOverride(s) == decl.nameOverride[s]

(* State::Name(), virtual: the override of the object's class, else the
   base class's. *)
Name(type) ==
    IF NameOverride(type) = <<>> THEN UnnamedState
    ELSE NameOverride(type)[1]

-----------------------------------------------------------------------------
(* State's virtual hooks. *)

RECURSIVE Dispatch(_, _, _)

(* OnStateEnter() of the object p refers to, called by machine m: the base
   class's does nothing; an override may call Dispatch on the machine.
   Calls nested deeper than MaxNesting stand for a recursion that does not
   end. *)
OnStateEnter(w, m, p) ==
    IF decl.reenter[p.index] = NoEvent THEN w
    ELSE IF w.active >= MaxNesting THEN Undefined(w)
    ELSE Dispatch(w, m, decl.reenter[p.index])

(* OnStateExit() of the object p refers to: does nothing. *)
OnStateExit(w, m, p) == w

-----------------------------------------------------------------------------
(* StateMachine's private members. *)

(* As CallOnStateEnter, with the hook invoked twice. *)
CallOnStateEnterTwice(w, m) ==
    LET p == w.currentState[m]
        entered == [hook |-> "OnStateEnter", on |-> p]
    IN  IF ValidPtr(w, p)
        THEN [w EXCEPT !.hooks = Append(Append(@, entered), entered)]
        ELSE Undefined(w)

(* std::visit(onStateEnter, currentState): state_ptr->OnStateEnter(), a
   virtual call on the object the active pointer refers to. *)
CallOnStateEnter(w, m) ==
    LET p == w.currentState[m] IN
    IF ValidPtr(w, p)
    THEN OnStateEnter(
            Did([w EXCEPT !.hooks = Append(@, [hook |-> "OnStateEnter",
                                               on |-> p])],
                "OnStateEnter", p),
            m, p)
    ELSE Undefined(w)

(* std::visit(onStateExit, currentState): state_ptr->OnStateExit(). *)
CallOnStateExit(w, m) ==
    LET p == w.currentState[m] IN
    IF ValidPtr(w, p)
    THEN OnStateExit(
            Did([w EXCEPT !.hooks = Append(@, [hook |-> "OnStateExit",
                                               on |-> p])],
                "OnStateExit", p),
            m, p)
    ELSE Undefined(w)

-----------------------------------------------------------------------------
(* StateMachine::Transition<State>() *)

(* As Transition, with the two hook calls in each other's place. *)
TransitionEntersBeforeExit(w, m, X) ==
    LET entered == CallOnStateEnter(w, m)
        switched == [entered EXCEPT !.currentState[m] = AddressOf(m, X)]
    IN  CallOnStateExit(switched, m)

(* As Transition, doing nothing when State is already the active one. *)
TransitionSkipsSelf(w, m, X) ==
    IF w.currentState[m] = AddressOf(m, X) THEN w
    ELSE LET exited == CallOnStateExit(w, m)
             switched == [exited EXCEPT !.currentState[m] = AddressOf(m, X)]
         IN  CallOnStateEnter(switched, m)

(* As Transition, with `states` a static member: the tuple of the first
   machine serves them all. *)
TransitionStaticStates(w, m, X) ==
    LET exited == CallOnStateExit(w, m)
        switched == [exited EXCEPT !.currentState[m] = AddressOf(1, X)]
    IN  CallOnStateEnter(switched, m)

(* As Transition, with `currentState` a static member: every machine's
   active pointer is the one written. *)
TransitionStaticCurrentState(w, m, X) ==
    LET exited == CallOnStateExit(w, m)
        switched == [exited EXCEPT
                        !.currentState = [k \in Machines |-> AddressOf(m, X)]]
    IN  CallOnStateEnter(switched, m)

(* As Transition, taking the address of a local copy of the tuple element:
   the pointer dangles once the copy is gone. *)
TransitionDangling(w, m, X) ==
    LET exited == CallOnStateExit(w, m)
        switched == [exited EXCEPT !.currentState[m] = AddressOf(0, X)]
    IN  CallOnStateEnter(switched, m)

(* As Transition, the active pointer switched before OnStateExit is
   called. *)
TransitionExitsTarget(w, m, X) ==
    LET switched == [w EXCEPT !.currentState[m] = AddressOf(m, X)]
    IN  CallOnStateEnter(CallOnStateExit(switched, m), m)

(* As Transition, constructing the target state anew on every entry. *)
TransitionReconstructs(w, m, X) ==
    LET exited == CallOnStateExit(w, m)
        rebuilt == [exited EXCEPT !.states[m][X].constructed = @ + 1]
        switched == [rebuilt EXCEPT !.currentState[m] = AddressOf(m, X)]
    IN  CallOnStateEnter(switched, m)

Transition(w, m, X) ==
    LET exited == CallOnStateExit(w, m)
        switched == Did([exited EXCEPT !.currentState[m] = AddressOf(m, X)],
                        "currentState =", AddressOf(m, X))
    IN  CallOnStateEnter(switched, m)

-----------------------------------------------------------------------------
(* The transition objects and the handler resolution of namespace detail. *)

TransitionTo(X) == [kind |-> "TransitionTo", target |-> X]

NullTransition == [kind |-> "NullTransition", target |-> NoHandler]

(* Overload resolution of state->Handle(event) for an event of class e: the
   overload declared for e itself, else the one declared for the nearest
   base class of e that has one (const Base & binds to a derived object),
   NoHandler when no overload is viable. *)
RECURSIVE ViableHandle(_, _)
ViableHandle(s, e) ==
    IF DeclaredHandle(s, e) # NoHandler THEN DeclaredHandle(s, e)
    ELSE IF decl.base[e] = NoBase THEN NoHandler
    ELSE ViableHandle(s, decl.base[e])

(* As HandleIsWellFormed, when only an overload for the event's own class
   counts. *)
HandleIsWellFormedExact(s, e) == DeclaredHandle(s, e) # NoHandler

(* state->Handle(event) is well-formed: overload resolution finds a Handle
   of the state class that accepts the event. *)
HandleIsWellFormed(s, e) == ViableHandle(s, e) # NoHandler

(* state->Handle(event): return {} of type TransitionTo<X>. *)
Handle(s, e) == TransitionTo(ViableHandle(s, e))

(* The overload taking int: return state->Handle(event). *)
InvokeHandleImplInt(s, e) == Handle(s, e)

(* As InvokeHandleImplDouble, answering an event nobody handles with a
   transition to the first state. *)
InvokeHandleImplDoubleResets(s, e) == TransitionTo(1)

(* The overload taking double: return {} of type NullTransition. *)
InvokeHandleImplDouble(s, e) == NullTransition

(* InvokeHandleImpl(state, event, int{}): the int overload when it is
   well-formed, else the double overload through the implicit conversion. *)
InvokeHandle(s, e) ==
    IF HandleIsWellFormed(s, e) THEN InvokeHandleImplInt(s, e)
    ELSE InvokeHandleImplDouble(s, e)

(* As TransitionToExecute, switching the active pointer itself and calling
   no hook. *)
TransitionToExecuteSwitchOnly(d, w, m) ==
    [w EXCEPT !.currentState[m] = AddressOf(m, d.target)]

(* TransitionTo<State>::Execute(machine) *)
TransitionToExecute(d, w, m) == Transition(w, m, d.target)

(* As NullTransitionExecute, carried out as a transition to the state the
   machine is in. *)
NullTransitionExecuteAsSelf(d, w, m) ==
    Transition(w, m, w.currentState[m].index)

(* As NullTransitionExecute, the build with LIBFSM_DEBUG carrying the
   directive out as a transition to the state the machine is in. *)
NullTransitionExecuteDebugSelf(d, w, m) ==
    IF w.LIBFSM_DEBUG
    THEN Transition([w EXCEPT !.cout = Append(@, "Called Null Transition")],
                    m, w.currentState[m].index)
    ELSE w

(* NullTransition::Execute(machine): the body is the output statement
   between #ifdef LIBFSM_DEBUG and #endif, and nothing else. *)
NullTransitionExecute(d, w, m) ==
    IF w.LIBFSM_DEBUG
    THEN [w EXCEPT !.cout = Append(@, "Called Null Transition")]
    ELSE w

(* .Execute(this) on the object InvokeHandle returned. *)
Execute(d, w, m) ==
    IF d.kind = "TransitionTo" THEN TransitionToExecute(d, w, m)
    ELSE NullTransitionExecute(d, w, m)

-----------------------------------------------------------------------------
(* StateMachine's public members. *)

(* As Dispatch, the event offered once more to the state a transition
   leads to. *)
DispatchReoffers(w, m, e) ==
    LET p == w.currentState[m]
        d == InvokeHandle(p.index, e)
        first == Execute(d, Did(w, "Handle", p), m)
        q == first.currentState[m]
        again == InvokeHandle(q.index, e)
    IN  IF d.kind # "TransitionTo" THEN NullTransitionExecute(d, w, m)
        ELSE IF again.kind # "TransitionTo" THEN first
        ELSE Execute(again, Did(first, "Handle", q), m)

(* As Dispatch, the active state left before its handler is asked. *)
DispatchExitsFirst(w, m, e) ==
    LET p == w.currentState[m]
        d == InvokeHandle(p.index, e)
        exited == CallOnStateExit(w, m)
        handled == Did(exited, "Handle", p)
        switched == Did([handled EXCEPT
                            !.currentState[m] = AddressOf(m, d.target)],
                        "currentState =", AddressOf(m, d.target))
    IN  IF d.kind = "TransitionTo" THEN CallOnStateEnter(switched, m)
        ELSE NullTransitionExecute(d, w, m)

(* StateMachine::Dispatch(event): std::visit(passEventToState,
   currentState), the lambda instantiated for the active alternative.
   Nothing in it looks at whether a Dispatch of the machine is in progress
   already; `active` counts the calls in progress and `maxActive` keeps the
   highest count. *)
Dispatch(w, m, e) ==
    LET p == w.currentState[m]
        called == [w EXCEPT !.active = @ + 1,
                            !.maxActive = IF w.active + 1 > @
                                          THEN w.active + 1 ELSE @]
        d == InvokeHandle(p.index, e)
        invoked == IF d.kind = "TransitionTo" THEN Did(called, "Handle", p)
                   ELSE called
    IN  IF ValidPtr(w, p)
        THEN [Execute(d, invoked, m) EXCEPT !.active = @ - 1]
        ELSE Undefined(w)

(* As GetCurrentStateName, reading the name off the first tuple element. *)
GetCurrentStateNameOfFirst(w, m) ==
    [world |-> w, ret |-> Name(w.states[m][1].type)]

(* StateMachine::GetCurrentStateName(): state_ptr->Name() on the object
   the active pointer refers to. *)
GetCurrentStateName(w, m) ==
    LET p == w.currentState[m] IN
    IF ValidPtr(w, p)
    THEN [world |-> w, ret |-> Name(w.states[p.owner][p.index].type)]
    ELSE [world |-> Undefined(w), ret |-> ""]

(* As Construct, entering the initial state. *)
ConstructAndEnter(m) ==
    [states |-> ConstructStates,
     currentState |-> InitialCurrentState(m),
     hooks |-> <<[hook |-> "OnStateEnter", on |-> InitialCurrentState(m)]>>]

(* The machine as its default member initialisers leave it; the class has
   no user-written constructor. *)
Construct(m) ==
    [states |-> ConstructStates,
     currentState |-> InitialCurrentState(m),
     hooks |-> <<>>]

-----------------------------------------------------------------------------
(* The program: machines of one specialization, constructed one after the
   other, and then any sequence of calls on them. *)

RECURSIVE ConstructionHooks(_)
ConstructionHooks(n) ==
    IF n = 0 THEN <<>> ELSE ConstructionHooks(n - 1) \o Construct(n).hooks

NoCall == [op |-> "Construct", m |-> 0, arg |-> 0, pre |-> NullPtr,
           ret |-> "", outcome |-> "returned", nesting |-> 0,
           steps |-> <<>>]

Constructed ==
    /\ states = [m \in Machines |-> Construct(m).states]
    /\ currentState = [m \in Machines |-> Construct(m).currentState]
    /\ hooks = ConstructionHooks(Cardinality(Machines))
    /\ lastCall = NoCall
    /\ fresh = [m \in Machines |-> TRUE]
    /\ run = <<>>
    /\ debugBuild = [states |-> states, currentState |-> currentState,
                     hooks |-> hooks, cout |-> <<>>]
    /\ lastEntered = [m \in Machines |-> InitialCurrentState(m)]

Init ==
    /\ decl \in FixtureDecls \cup {TcpStateMachine}
    /\ Constructed

(* What a call can end with: it returns, unless it ran into undefined
   behaviour, after which it may also have crashed. *)
Outcomes(w) == IF w.ub THEN {"returned", "crashed"} ELSE {"returned"}

Running == lastCall.outcome = "returned"

(* The object of the last OnStateEnter among the hook invocations hs, p
   when there is none. *)
LastEnter(hs, p) ==
    LET entries == {i \in 1..Len(hs) : hs[i].hook = "OnStateEnter"} IN
    IF entries = {} THEN p
    ELSE hs[CHOOSE i \in entries : \A j \in entries : j <= i].on

Commit(w, call) ==
    /\ states' = w.states
    /\ currentState' = w.currentState
    /\ hooks' = w.hooks
    /\ \E o \in Outcomes(w) :
          lastCall' = [call EXCEPT !.outcome = o, !.nesting = w.maxActive,
                                   !.steps = w.steps]
    /\ lastEntered' = [lastEntered EXCEPT ![call.m] = LastEnter(w.hooks, @)]
    /\ UNCHANGED decl

CallDispatch(m, e) ==
    /\ Running
    /\ Commit(Dispatch(World, m, e),
              [op |-> "Dispatch", m |-> m, arg |-> e, pre |-> currentState[m],
               ret |-> "", outcome |-> "", nesting |-> 0,
               steps |-> <<>>])
    /\ fresh' = [fresh EXCEPT ![m] = FALSE]

CallTransition(m, X) ==
    /\ Running
    /\ Commit(Transition(World, m, X),
              [op |-> "Transition", m |-> m, arg |-> X, pre |-> currentState[m],
               ret |-> "", outcome |-> "", nesting |-> 0,
               steps |-> <<>>])
    /\ fresh' = [fresh EXCEPT ![m] = FALSE]

CallGetCurrentStateName(m) ==
    /\ Running
    /\ LET r == GetCurrentStateName(World, m) IN
       Commit(r.world,
              [op |-> "GetCurrentStateName", m |-> m, arg |-> 0,
               pre |-> currentState[m], ret |-> r.ret, outcome |-> "",
               nesting |-> 0,
               steps |-> <<>>])
    /\ UNCHANGED fresh

DispatchEvent(m, e) == CallDispatch(m, e) /\ UNCHANGED <<run, debugBuild>>

TransitionDirectly(m, X) ==
    CallTransition(m, X) /\ UNCHANGED <<run, debugBuild>>

ReadName(m) == CallGetCurrentStateName(m) /\ UNCHANGED <<run, debugBuild>>

Next ==
    \/ \E m \in Machines, e \in EventTypes : DispatchEvent(m, e)
    \/ \E m \in Machines, X \in StateTypes : TransitionDirectly(m, X)
    \/ \E m \in Machines : ReadName(m)

Spec == Init /\ [][Next]_vars

-----------------------------------------------------------------------------
(* The TCP demo's main: Dispatch calls on stateMachine.  main dispatches
   PassiveOpenEvent, SendDataEvent and SynAckEvent; the model lets it
   dispatch any MaxRun events, and records them. *)

MainDispatch(e) ==
    /\ Len(run) < MaxRun
    /\ CallDispatch(stateMachine, e)
    /\ run' = Append(run, [event |-> e, from |-> currentState[stateMachine],
                           to |-> currentState'[stateMachine],
                           hooks |-> hooks'])
    /\ UNCHANGED debugBuild

MainReadName ==
    CallGetCurrentStateName(stateMachine) /\ UNCHANGED <<run, debugBuild>>

InitTcp ==
    /\ decl = TcpStateMachine
    /\ Constructed

NextTcp ==
    \/ \E e \in TcpEvents : MainDispatch(e)
    \/ MainReadName

SpecTcp == InitTcp /\ [][NextTcp]_vars

-----------------------------------------------------------------------------
(* The TCP demo's machine driven by events only: any sequence of Dispatch
   calls on stateMachine, of any length. *)

TcpDispatch(e) == DispatchEvent(stateMachine, e)

NextTcpEvents == \E e \in TcpEvents : TcpDispatch(e)

SpecTcpEvents == InitTcp /\ [][NextTcpEvents]_vars

-----------------------------------------------------------------------------
(* A program that dispatches events of a derived event class too. *)

InitDerived ==
    /\ decl \in DerivedDecls
    /\ Constructed

SpecDerived == InitDerived /\ [][Next]_vars

-----------------------------------------------------------------------------
(* A program whose state classes call Dispatch from OnStateEnter. *)

InitReentrant ==
    /\ decl \in ReentrantDecls
    /\ Constructed

SpecReentrant == InitReentrant /\ [][Next]_vars

-----------------------------------------------------------------------------
(* The test program compiled twice, without and with LIBFSM_DEBUG, and the
   two executables given the same calls.  debugBuild holds the machines of
   the second, the hooks its most recent operation invoked and what the
   library wrote to std::cout during it. *)

Built(w) == [states |-> w.states, currentState |-> w.currentState,
             hooks |-> w.hooks, cout |-> w.cout]

BothDispatch(m, e) ==
    /\ CallDispatch(m, e)
    /\ debugBuild' = Built(Dispatch(DebugWorld, m, e))
    /\ UNCHANGED run

BothTransition(m, X) ==
    /\ CallTransition(m, X)
    /\ debugBuild' = Built(Transition(DebugWorld, m, X))
    /\ UNCHANGED run

NextDebug ==
    \/ \E m \in Machines, e \in EventTypes : BothDispatch(m, e)
    \/ \E m \in Machines, X \in StateTypes : BothTransition(m, X)

SpecDebug == Init /\ [][NextDebug]_vars

-----------------------------------------------------------------------------
(* A program that copies and destroys machines of the test fixture.  The
   class declares no copy or move operation and no destructor, so the
   compiler's memberwise ones apply: the tuple is copied element by element
   and the variant, which holds a pointer, is copied as that pointer.  A
   move of the two members does the same as a copy. *)

Alive(m) == states[m] # <<>>

(* StateMachine dst = src; (also StateMachine dst{std::move(src)};): dst's
   tuple elements are new objects, its active pointer is src's. *)
CopyConstruct(dst, src) ==
    /\ Running
    /\ ~Alive(dst)
    /\ Alive(src)
    /\ states' = [states EXCEPT ![dst] = ConstructStates]
    /\ currentState' = [currentState EXCEPT ![dst] = currentState[src]]
    /\ hooks' = <<>>
    /\ lastCall' = [op |-> "CopyConstruct", m |-> dst, arg |-> src,
                    pre |-> currentState[dst], ret |-> "",
                    outcome |-> "returned", nesting |-> 0,
                    steps |-> <<>>]
    /\ fresh' = [fresh EXCEPT ![dst] = fresh[src]]
    /\ UNCHANGED <<decl, run, debugBuild, lastEntered>>

(* dst = src; (also dst = std::move(src);): dst's tuple elements are
   assigned to and stay the objects they are, its active pointer becomes
   src's. *)
CopyAssign(dst, src) ==
    /\ Running
    /\ Alive(dst)
    /\ Alive(src)
    /\ dst # src
    /\ currentState' = [currentState EXCEPT ![dst] = currentState[src]]
    /\ hooks' = <<>>
    /\ lastCall' = [op |-> "CopyAssign", m |-> dst, arg |-> src,
                    pre |-> currentState[dst], ret |-> "",
                    outcome |-> "returned", nesting |-> 0,
                    steps |-> <<>>]
    /\ fresh' = [fresh EXCEPT ![dst] = fresh[src]]
    /\ UNCHANGED <<decl, states, run, debugBuild, lastEntered>>

(* The machine's lifetime ends: its tuple elements are destroyed. *)
Destroy(m) ==
    /\ Running
    /\ Alive(m)
    /\ states' = [states EXCEPT ![m] = <<>>]
    /\ currentState' = [currentState EXCEPT ![m] = NullPtr]
    /\ hooks' = <<>>
    /\ lastCall' = [op |-> "Destroy", m |-> m, arg |-> 0,
                    pre |-> currentState[m], ret |-> "",
                    outcome |-> "returned", nesting |-> 0,
                    steps |-> <<>>]
    /\ UNCHANGED <<decl, fresh, run, debugBuild, lastEntered>>

DispatchOnAlive(m, e) == Alive(m) /\ DispatchEvent(m, e)

ReadNameOfAlive(m) == Alive(m) /\ ReadName(m)

InitCopy ==
    /\ decl \in FixtureDecls
    /\ decl.handle = FixtureHandle
    /\ \A s \in FixtureStates : decl.nameOverride[s] = <<FixtureNames[s]>>
    /\ Constructed

NextCopy ==
    \/ \E dst, src \in Machines : CopyConstruct(dst, src)
    \/ \E dst, src \in Machines : CopyAssign(dst, src)
    \/ \E m \in Machines : Destroy(m)
    \/ \E m \in Machines, e \in EventTypes : DispatchOnAlive(m, e)
    \/ \E m \in Machines : ReadNameOfAlive(m)

SpecCopy == InitCopy /\ [][NextCopy]_vars

-----------------------------------------------------------------------------
(* The door demo's main: Dispatch calls on door, and a GetCurrentStateName
   call.  main dispatches OpenEvent and CloseEvent; the model lets it
   dispatch any MaxDoorRun events, and records them. *)

DoorDispatch(e) ==
    /\ Len(run) < MaxDoorRun
    /\ CallDispatch(door, e)
    /\ run' = Append(run, [event |-> e, from |-> currentState[door],
                           to |-> currentState'[door], hooks |-> hooks'])
    /\ UNCHANGED debugBuild

DoorReadName == CallGetCurrentStateName(door) /\ UNCHANGED <<run, debugBuild>>

InitDoor ==
    /\ decl = Door
    /\ Constructed

NextDoor ==
    \/ \E e \in DoorEvents : DoorDispatch(e)
    \/ DoorReadName

SpecDoor == InitDoor /\ [][NextDoor]_vars

-----------------------------------------------------------------------------
(* Properties. *)

Exit(p) == [hook |-> "OnStateExit", on |-> p]
Enter(p) == [hook |-> "OnStateEnter", on |-> p]

(* The last call was a Dispatch of an event for which the state active at
   the call declares a handler. *)
HandledDispatch ==
    /\ lastCall.op = "Dispatch"
    /\ DeclaredHandle(lastCall.pre.index, lastCall.arg) # NoHandler

UnhandledDispatch ==
    /\ lastCall.op = "Dispatch"
    /\ DeclaredHandle(lastCall.pre.index, lastCall.arg) = NoHandler

(* C1: a Dispatch of an event for which the active state S declares a
   handler returning TransitionTo<X> ends with X's instance active; the call
   fires OnStateExit of S and then OnStateEnter of X, once each, and no
   other hook. *)
C1_HandledDispatchTransitions ==
    HandledDispatch =>
        LET X == DeclaredHandle(lastCall.pre.index, lastCall.arg) IN
        /\ currentState[lastCall.m] = AddressOf(lastCall.m, X)
        /\ hooks = <<Exit(lastCall.pre), Enter(AddressOf(lastCall.m, X))>>

C1_Witness ==
    /\ HandledDispatch
    /\ DeclaredHandle(lastCall.pre.index, lastCall.arg) # lastCall.pre.index
    /\ Len(hooks) = 2

(* C2: a Dispatch of an event for which the active state declares no
   handler leaves the active state and the name it reports as they were and
   fires no hook. *)
C2_UnhandledDispatchIsNoOp ==
    UnhandledDispatch =>
        /\ currentState[lastCall.m] = lastCall.pre
        /\ GetCurrentStateName(World, lastCall.m).ret = Name(lastCall.pre.index)
        /\ hooks = <<>>

C2_Witness ==
    /\ UnhandledDispatch
    /\ lastCall.pre.index # 1
    /\ currentState[lastCall.m] = lastCall.pre

(* C3: a machine on which neither Dispatch nor Transition was called yet has
   the first declared state active and reports its name, and no hook has
   fired on its states; an OnStateEnter fires only in a call that executes a
   transition. *)
C3_FreshMachineInFirstState ==
    /\ \A m \in Machines :
          fresh[m] =>
             /\ currentState[m] = AddressOf(m, 1)
             /\ GetCurrentStateName(World, m).ret = Name(1)
             /\ \A i \in 1..Len(hooks) : hooks[i].on.owner # m
    /\ \A i \in 1..Len(hooks) :
          hooks[i].hook = "OnStateEnter" =>
             lastCall.op = "Transition" \/ HandledDispatch

C3_Witness ==
    /\ lastCall.op = "GetCurrentStateName"
    /\ fresh[lastCall.m]
    /\ \E m \in Machines : ~fresh[m] /\ currentState[m].index # 1

(* The last call was a transition of a machine to the state it was in. *)
SelfTransitionByHandler ==
    /\ HandledDispatch
    /\ DeclaredHandle(lastCall.pre.index, lastCall.arg) = lastCall.pre.index

SelfTransitionDirectly ==
    /\ lastCall.op = "Transition"
    /\ lastCall.arg = lastCall.pre.index

(* C4: a transition of a machine to the state S it is in, by a handler
   returning TransitionTo<S> or by Transition<S>(), fires OnStateExit and
   then OnStateEnter on the one instance of S, once each, and leaves that
   instance active. *)
C4_SelfTransitionExitsThenEnters ==
    (SelfTransitionByHandler \/ SelfTransitionDirectly) =>
        /\ hooks = <<Exit(lastCall.pre), Enter(lastCall.pre)>>
        /\ currentState[lastCall.m] = lastCall.pre

C4_Witness ==
    /\ SelfTransitionByHandler
    /\ lastCall.pre.index # 1
    /\ Len(hooks) = 2

(* C5: the active pointer of every machine is not null and refers to an
   element of that machine's own tuple, of one of the declared state
   types. *)
C5_ActiveReferenceValid ==
    \A m \in Machines :
        /\ currentState[m] # NullPtr
        /\ currentState[m].owner = m
        /\ currentState[m].index \in StateTypes
        /\ currentState[m].index \in DOMAIN states[m]
        /\ states[m][currentState[m].index].type = currentState[m].index

C5_Witness ==
    /\ \A m \in Machines : ~fresh[m]
    /\ lastCall.op = "Transition"
    /\ currentState[lastCall.m].index = decl.nStates
    /\ \E m \in Machines : currentState[m].index # decl.nStates

(* C6: a call on one machine leaves every other machine's active pointer
   and state instances as they were and fires no hook on an instance of
   another machine; no two machines have the same instance active. *)
C6_MachinesIndependent ==
    [][ /\ \A m \in Machines :
              lastCall'.m # m =>
                 /\ currentState'[m] = currentState[m]
                 /\ states'[m] = states[m]
                 /\ \A i \in 1..Len(hooks') : hooks'[i].on.owner # m
        /\ \A m, k \in Machines :
              m # k => currentState'[m] # currentState'[k] ]_vars

C6_Witness ==
    /\ \A m \in Machines : ~fresh[m]
    /\ \E m \in Machines :
          /\ m # lastCall.m
          /\ currentState[m].index # currentState[lastCall.m].index
          /\ currentState[m].index # 1
    /\ Len(hooks) = 2

(* C7: every Dispatch call returns, whether the active state handles the
   event or not. *)
C7_DispatchReturns ==
    lastCall.op = "Dispatch" => lastCall.outcome = "returned"

C7_Witness ==
    /\ UnhandledDispatch
    /\ lastCall.outcome = "returned"
    /\ ~fresh[lastCall.m]
    /\ lastCall.pre.index # 1

(* C8: GetCurrentStateName returns the name the active state's class gives
   in its override of Name(), "<Unnamed State>" when the class has none; the
   call leaves the active pointer as it was and fires no hook. *)
C8_NameOfActiveState ==
    lastCall.op = "GetCurrentStateName" =>
        /\ lastCall.ret =
              IF NameOverride(lastCall.pre.index) = <<>>
              THEN "<Unnamed State>"
              ELSE NameOverride(lastCall.pre.index)[1]
        /\ currentState[lastCall.m] = lastCall.pre
        /\ hooks = <<>>

C8_Witness ==
    /\ lastCall.op = "GetCurrentStateName"
    /\ lastCall.ret = "State2"
    /\ NameOverride(State1) = <<>>

(* C9: no call constructs, destroys or replaces a state instance or changes
   its data: every step leaves the tuples as they are and the active pointer
   on one of their elements. *)
C9_InstancesPersist ==
    [][ /\ states' = states
        /\ \A m \in Machines :
              currentState'[m].index \in DOMAIN states[m] ]_vars

C9_Witness ==
    /\ lastCall.op \in {"Dispatch", "Transition"}
    /\ lastCall.pre.index # 1
    /\ currentState[lastCall.m] = AddressOf(lastCall.m, 1)
    /\ hooks = <<Exit(lastCall.pre), Enter(AddressOf(lastCall.m, 1))>>

(* main's three Dispatch calls, and nothing else, have been made. *)
MainHasRun ==
    /\ Len(run) = 3
    /\ run[1].event = PassiveOpenEvent
    /\ run[2].event = SendDataEvent
    /\ run[3].event = SynAckEvent

(* How often the hook record h occurs in the calls of the run. *)
TimesFired(h) ==
    Cardinality({ij \in UNION {{<<i, j>> : j \in 1..Len(run[i].hooks)} :
                                 i \in 1..Len(run)} :
                    run[ij[1]].hooks[ij[2]] = h})

MainPassesListenAndSynSent ==
    /\ run[1].to = AddressOf(stateMachine, ListenState)
    /\ run[2].to = AddressOf(stateMachine, SynSentState)
    /\ TimesFired(Enter(AddressOf(stateMachine, EstablishedState))) = 1

(* C10 as stated: after main's three Dispatch calls on a fresh TCP machine,
   which pass through ListenState and SynSentState and enter
   EstablishedState once, GetCurrentStateName returns "Established". *)
C10_MainEndsNamedEstablished ==
    MainHasRun =>
        /\ MainPassesListenAndSynSent
        /\ GetCurrentStateName(World, stateMachine).ret = "Established"

(* C10, amended: after main's three Dispatch calls on a fresh TCP machine,
   which pass through ListenState and SynSentState and enter
   EstablishedState once, the EstablishedState instance is active and
   GetCurrentStateName returns "<Unnamed State>". *)
C10_MainEndsInEstablished ==
    MainHasRun =>
        /\ MainPassesListenAndSynSent
        /\ currentState[stateMachine] = AddressOf(stateMachine, EstablishedState)
        /\ GetCurrentStateName(World, stateMachine).ret = "<Unnamed State>"

C10_Witness ==
    /\ MainHasRun
    /\ lastCall.op = "GetCurrentStateName"
    /\ lastCall.ret = "<Unnamed State>"
    /\ currentState[stateMachine].index = EstablishedState

(* The events main has dispatched on the door, in order. *)
DoorRunEvents == [i \in 1..Len(run) |-> run[i].event]

(* C11: a fresh door is in ClosedState; OpenEvent moves it to OpenState and
   a following CloseEvent back to ClosedState; after any non-empty sequence
   of OpenEvent and CloseEvent dispatches the door is in OpenState exactly
   when the last event dispatched was OpenEvent. *)
C11_DoorFollowsLastEvent ==
    /\ run = <<>> => currentState[door] = AddressOf(door, DoorClosedState)
    /\ DoorRunEvents = <<DoorOpenEvent>> =>
          currentState[door] = AddressOf(door, DoorOpenState)
    /\ DoorRunEvents = <<DoorOpenEvent, DoorCloseEvent>> =>
          currentState[door] = AddressOf(door, DoorClosedState)
    /\ run # <<>> =>
          /\ currentState[door] \in {AddressOf(door, DoorClosedState),
                                     AddressOf(door, DoorOpenState)}
          /\ currentState[door] = AddressOf(door, DoorOpenState)
                <=> run[Len(run)].event = DoorOpenEvent

C11_Witness ==
    /\ Len(run) >= 4
    /\ run[Len(run)].event = DoorOpenEvent
    /\ run[Len(run) - 1].event = DoorOpenEvent
    /\ run[Len(run) - 2].event = DoorCloseEvent
    /\ run[Len(run) - 3].event = DoorCloseEvent
    /\ currentState[door] = AddressOf(door, DoorOpenState)

(* The Handle overload that a call state->Handle(event) selects in the
   programs with DerivedEvent: the one for the event's class, and for a
   DerivedEvent without one of its own the one for Event1. *)
SelectedHandle(s, e) ==
    IF DeclaredHandle(s, e) # NoHandler THEN DeclaredHandle(s, e)
    ELSE IF e = DerivedEvent THEN DeclaredHandle(s, Event1)
    ELSE NoHandler

(* C12 as stated: a Dispatch runs a handler only when the active state
   declares one for the very class of the event; an event of a class that
   only derives from a handled class changes nothing. *)
C12_ExactTypeOnly ==
    lastCall.op = "Dispatch" =>
        (DeclaredHandle(lastCall.pre.index, lastCall.arg) = NoHandler =>
            /\ currentState[lastCall.m] = lastCall.pre
            /\ hooks = <<>>)

(* C12, amended: a Dispatch runs the handler that overload resolution of
   state->Handle(event) selects: the one declared for the event's class,
   else the one declared for a base class of it; only when no overload
   accepts the event does it resolve to NullTransition and change nothing. *)
C12_ViableOverloadHandles ==
    lastCall.op = "Dispatch" =>
        LET X == SelectedHandle(lastCall.pre.index, lastCall.arg) IN
        IF X = NoHandler
        THEN /\ currentState[lastCall.m] = lastCall.pre
             /\ hooks = <<>>
        ELSE /\ currentState[lastCall.m] = AddressOf(lastCall.m, X)
             /\ hooks = <<Exit(lastCall.pre), Enter(AddressOf(lastCall.m, X))>>

C12_Witness ==
    /\ lastCall.op = "Dispatch"
    /\ lastCall.arg = DerivedEvent
    /\ DeclaredHandle(lastCall.pre.index, DerivedEvent) = NoHandler
    /\ DeclaredHandle(lastCall.pre.index, Event1) # lastCall.pre.index
    /\ currentState[lastCall.m] # lastCall.pre

(* C13: no Dispatch call of a machine is carried out while another Dispatch
   call of that machine is in progress: a call from a hook running inside a
   Dispatch is stopped by a guard, so that at most one Dispatch call of the
   machine is active at any time. *)
C13_NoNestedDispatch ==
    lastCall.op = "Dispatch" => lastCall.nesting <= 1

(* C14: the build with LIBFSM_DEBUG and the build without it, given the
   same Dispatch / Transition calls, have after every call the same active
   state in every machine, the same state instances and the same hook
   invocations made by the call; only the output of the debug build
   differs. *)
C14_DebugFlagKeepsSemantics ==
    /\ debugBuild.currentState = currentState
    /\ debugBuild.states = states
    /\ debugBuild.hooks = hooks

C14_Witness ==
    /\ UnhandledDispatch
    /\ debugBuild.cout = <<"Called Null Transition">>
    /\ debugBuild.currentState = currentState
    /\ \E m \in Machines : currentState[m].index # 1

(* What an operation leaves behind: the state instances, the active
   pointers and the hook invocations it made. *)
Effect(w) == <<w.states, w.currentState, w.hooks>>

EffectOfStep == <<states', currentState', hooks'>>

(* C15: a direct Transition<X>() on a machine whose active state is S has
   the effect of executing a TransitionTo<X> directive on it, for every S
   and X: OnStateExit of S, the active pointer set to X's instance,
   OnStateEnter of X.  A Dispatch of an event that S handles with
   TransitionTo<X> has the effect of Transition<X>() called from the same
   state. *)
C15_DirectTransitionAsDirective ==
    [][ /\ lastCall'.op = "Transition" =>
            /\ EffectOfStep =
                 Effect(TransitionToExecute(TransitionTo(lastCall'.arg),
                                            World, lastCall'.m))
            /\ hooks' = <<Exit(currentState[lastCall'.m]),
                          Enter(AddressOf(lastCall'.m, lastCall'.arg))>>
            /\ currentState' =
                 [currentState EXCEPT ![lastCall'.m] =
                     AddressOf(lastCall'.m, lastCall'.arg)]
            /\ states' = states
        /\ (/\ lastCall'.op = "Dispatch"
            /\ HandleIsWellFormed(currentState[lastCall'.m].index,
                                  lastCall'.arg)) =>
            EffectOfStep =
              Effect(Transition(World, lastCall'.m,
                                ViableHandle(currentState[lastCall'.m].index,
                                             lastCall'.arg)))
      ]_vars

C15_Witness ==
    /\ lastCall.op = "Transition"
    /\ lastCall.pre.index # lastCall.arg
    /\ \A e \in EventTypes : DeclaredHandle(lastCall.pre.index, e) # lastCall.arg
    /\ currentState[lastCall.m] = AddressOf(lastCall.m, lastCall.arg)
    /\ hooks = <<Exit(lastCall.pre), Enter(currentState[lastCall.m])>>

(* C17: a machine made by copying or moving another machine has its active
   pointer on an element of its own tuple, so that calls on it fire hooks
   on and read names from its own state instances only and stay defined
   after the source machine is destroyed. *)
C17_CopyOwnsActiveReference ==
    /\ \A m \in Machines : Alive(m) => currentState[m].owner = m
    /\ lastCall.op \in {"Dispatch", "GetCurrentStateName"} =>
          /\ lastCall.outcome = "returned"
          /\ lastCall.pre.owner = lastCall.m
          /\ \A i \in 1..Len(hooks) : hooks[i].on.owner = lastCall.m

(* C18: without re-entrancy, every call fires either no hook or one
   OnStateExit immediately followed by one OnStateEnter; the OnStateExit is
   on the state active at the call, which is the state whose OnStateEnter
   fired most recently on the machine (the first declared state when none
   has); and between calls every machine's active state is the state whose
   OnStateEnter fired most recently on it. *)
C18_HooksPairAndChain ==
    [][ LET m == lastCall'.m IN
        /\ \A k \in Machines : currentState[k] = lastEntered[k]
        /\ \A k \in Machines : fresh[k] => lastEntered[k] = AddressOf(k, 1)
        /\ Len(hooks') \in {0, 2}
        /\ Len(hooks') = 2 =>
              /\ hooks'[1] = Exit(currentState[m])
              /\ hooks'[1] = Exit(lastEntered[m])
              /\ hooks'[2] = Enter(currentState'[m])
        /\ Len(hooks') = 0 => currentState' = currentState
        /\ \A k \in Machines : currentState'[k] = lastEntered'[k]
      ]_vars

C18_Witness ==
    /\ lastCall.op \in {"Dispatch", "Transition"}
    /\ lastCall.pre.index # 1
    /\ lastCall.pre.index # currentState[lastCall.m].index
    /\ hooks = <<Exit(lastCall.pre), Enter(currentState[lastCall.m])>>
    /\ lastEntered[lastCall.m] = currentState[lastCall.m]
    /\ \E k \in Machines : fresh[k] /\ lastEntered[k] = AddressOf(k, 1)

(* C19: a Dispatch of an event the active state handles takes its steps in
   one order: the handler runs on the instance active at the call, then
   OnStateExit of that instance, then the active pointer is set to the
   target's instance, then OnStateEnter of the target; the handler runs
   once, before the exit hook, and not on the target. *)
C19_DispatchStepOrder ==
    HandledDispatch =>
        LET from == lastCall.pre
            to == AddressOf(lastCall.m,
                            DeclaredHandle(from.index, lastCall.arg))
        IN  lastCall.steps = << Step("Handle", from),
                                Step("OnStateExit", from),
                                Step("currentState =", to),
                                Step("OnStateEnter", to) >>

C19_Witness ==
    /\ HandledDispatch
    /\ lastCall.pre.index # currentState[lastCall.m].index
    /\ Len(lastCall.steps) = 4
    /\ lastCall.steps[1] = Step("Handle", lastCall.pre)
    /\ lastCall.steps[4] = Step("OnStateEnter", currentState[lastCall.m])

(* How many of the hook invocations of the last operation are of hook h,
   and how many of its steps are of the kind what. *)
HooksFired(h) == Cardinality({i \in 1..Len(hooks) : hooks[i].hook = h})

StepsTaken(what) ==
    Cardinality({i \in 1..Len(lastCall.steps) :
                    lastCall.steps[i].step = what})

(* C20: one Dispatch call runs at most one handler and executes the one
   directive it got: it sets the active pointer at most once and fires at
   most one OnStateExit and at most one OnStateEnter.  After a handled
   event the active state is the handler's target, whether or not the
   target declares a handler for the same event; after an unhandled one it
   is the state active at the call. *)
C20_OneDirectivePerDispatch ==
    lastCall.op = "Dispatch" =>
        /\ StepsTaken("Handle") <= 1
        /\ StepsTaken("currentState =") <= 1
        /\ HooksFired("OnStateExit") <= 1
        /\ HooksFired("OnStateEnter") <= 1
        /\ HandledDispatch =>
              currentState[lastCall.m] =
                 AddressOf(lastCall.m,
                           DeclaredHandle(lastCall.pre.index, lastCall.arg))
        /\ UnhandledDispatch => currentState[lastCall.m] = lastCall.pre

C20_Witness ==
    /\ HandledDispatch
    /\ LET X == DeclaredHandle(lastCall.pre.index, lastCall.arg) IN
          /\ X # lastCall.pre.index
          /\ DeclaredHandle(X, lastCall.arg) \notin {NoHandler, X}
          /\ currentState[lastCall.m] = AddressOf(lastCall.m, X)
    /\ StepsTaken("Handle") = 1
    /\ HooksFired("OnStateEnter") = 1

(* C21: in the build with LIBFSM_DEBUG every null transition and every
   OnStateExit / OnStateEnter invocation of a call writes one diagnostic
   message: the library's output of a Dispatch or Transition call has one
   message for each hook the call invoked and one for a null transition. *)
C21_VerboseLogsEveryOccurrence ==
    lastCall.op \in {"Dispatch", "Transition"} =>
        Len(debugBuild.cout) =
            Len(debugBuild.hooks) + (IF UnhandledDispatch THEN 1 ELSE 0)

(* The state type active in stateMachine after Dispatch of an event of
   class e with state type s active. *)
After(s, e) ==
    Dispatch([World EXCEPT !.currentState[stateMachine] =
                               AddressOf(stateMachine, s)],
             stateMachine, e).currentState[stateMachine].index

(* The state types some sequence of dispatched events leads to from one of
   the state types S. *)
RECURSIVE ReachableFrom(_)
ReachableFrom(S) ==
    LET next == S \cup {After(s, e) : s \in S, e \in EventTypes}
    IN  IF next = S THEN S ELSE ReachableFrom(next)

(* C22: in the TCP demo every one of the 11 declared states is reached
   from the initial ClosedState by some sequence of dispatched events; from
   every state the machine is in, some sequence of dispatched events leads
   back to ClosedState; and the active state handles at least one event. *)
C22_TcpStatesReachableAndReturn ==
    LET s == currentState[stateMachine].index IN
    /\ ReachableFrom({InitialCurrentState(stateMachine).index}) = TcpStates
    /\ s \in ReachableFrom({ClosedState})
    /\ ClosedState \in ReachableFrom({s})
    /\ \E e \in TcpEvents : After(s, e) # s

C22_Witness ==
    /\ lastCall.op = "Dispatch"
    /\ lastCall.pre.index = CloseWaitState
    /\ currentState[stateMachine].index = LastAckState
    /\ ClosedState \in ReachableFrom({LastAckState})
    /\ ClosedState \notin {After(LastAckState, e) : e \in TcpEvents \ {AckEvent}}

====
